---- MODULE Spec2Model ----
(***************************************************************************)
(* Model of image_analyzer.py: a batch script that walks the images/       *)
(* folder and takes every image through size validation, S3 upload,        *)
(* Rekognition label detection and a DynamoDB put_item.                    *)
(*                                                                         *)
(* Python strings that the script takes apart (file names, paths, object   *)
(* keys, the git ref) are sequences of one-character strings, so that      *)
(* endswith, basename, join and split are computed, not assumed.           *)
(***************************************************************************)
EXTENDS Integers, Sequences, FiniteSets, TLC

VARIABLES
    GITHUB_REF,   \* os.environ entry of the run: [set |-> BOOLEAN, val |-> chars]
    BRANCH,       \* module constant computed at startup (line 17)
    listing,      \* what os.listdir(IMAGES_FOLDER) returned, in its order
    fsize,        \* byte size of every listed file (os.path.getsize)
    i,            \* position of the for loop in listing (1-based)
    pc,           \* where the script is inside the loop body
    labels,       \* local of the loop body: labels returned by the analysis
    response,     \* local of the loop body: response returned by the analysis
    s3,           \* objects of the bucket: set of [Bucket, Key, Body]
    table,        \* items of the DynamoDB table
    table0,       \* the table as the run found it
    calls,        \* every stage invocation of the run, in order
    status        \* per listed file: how far the loop body took it

vars == <<GITHUB_REF, BRANCH, listing, fsize, i, pc, labels, response,
          s3, table, table0, calls, status>>

----------------------------------------------------------------------------
(* Bounds *)

MaxFiles == 3

----------------------------------------------------------------------------
(* Module constants, lines 12-17 *)

PREFIX == <<"r","e","k","o","g","n","i","t","i","o","n","-","i","n","p","u","t","/">>

IMAGES_FOLDER == <<"i","m","a","g","e","s","/">>

BUCKET == "S3_BUCKET"

DEFAULT_REF == <<"r","e","f","s","/","h","e","a","d","s","/","m","a","i","n">>

MAX_SIZE == 5242880

IMAGE_EXTENSIONS ==
    { <<".","j","p","g">>, <<".","j","p","e","g">>, <<".","p","n","g">> }

----------------------------------------------------------------------------
(* Python string functions the script uses *)

\* str.lower() on the letters the file names use
LowerChar(c) == CASE c = "J" -> "j" [] c = "P" -> "p" [] c = "G" -> "g" [] OTHER -> c

\* faulty variant of EndsWith: the match ignores case
EndsWithIgnoreCase(s, suf) ==
    /\ Len(s) >= Len(suf)
    /\ [k \in 1..Len(suf) |-> LowerChar(s[Len(s) - Len(suf) + k])] = suf

\* str.endswith(suffix): case-sensitive suffix match
EndsWith(s, suf) ==
    /\ Len(s) >= Len(suf)
    /\ SubSeq(s, Len(s) - Len(suf) + 1, Len(s)) = suf

\* str.endswith(tuple of suffixes)
EndsWithAny(s, sufs) == \E suf \in sufs : EndsWith(s, suf)

\* index of the last "/" of s, 0 when there is none (str.rfind + 1)
LastSlash(s) ==
    LET idx == { k \in 1..Len(s) : s[k] = "/" }
    IN  IF idx = {} THEN 0 ELSE CHOOSE k \in idx : \A m \in idx : m <= k

\* faulty variant of Basename: the directory part is kept
BasenameKeepsDir(p) == p

\* os.path.basename(p): what follows the last "/"
Basename(p) == SubSeq(p, LastSlash(p) + 1, Len(p))

\* os.path.join(a, b) for two components (posixpath)
PathJoin(a, b) ==
    IF Len(b) > 0 /\ b[1] = "/" THEN b
    ELSE IF a = <<>> \/ a[Len(a)] = "/" THEN a \o b
    ELSE a \o <<"/">> \o b

\* s.split('/')[-1]
SplitLast(s) == SubSeq(s, LastSlash(s) + 1, Len(s))

\* os.getenv(name, default)
GetEnv(entry, default) == IF entry.set THEN entry.val ELSE default

\* faulty variant of BranchOf: the default ref names another branch
BranchOfMasterDefault(entry) ==
    SplitLast(GetEnv(entry, <<"r","e","f","s","/","h","e","a","d","s","/","m","a","s","t","e","r">>))

\* BRANCH, line 17
BranchOf(entry) == SplitLast(GetEnv(entry, DEFAULT_REF))

\* one decimal digit as a character
Digit(d) == CASE d = 0 -> "0" [] d = 1 -> "1" [] d = 2 -> "2" [] d = 3 -> "3"
              [] d = 4 -> "4" [] d = 5 -> "5" [] d = 6 -> "6" [] d = 7 -> "7"
              [] d = 8 -> "8" [] d = 9 -> "9"

RECURSIVE NatStr(_)
\* str(n) of a natural number
NatStr(n) == IF n < 10 THEN <<Digit(n)>> ELSE NatStr(n \div 10) \o <<Digit(n % 10)>>

\* faulty variant of FloatStr: the fraction is dropped
FloatStrTruncated(tenths) == NatStr(tenths \div 10)

\* str(x) of a float with one fractional digit, held as its number of tenths:
\* 982 is 98.2 and prints "98.2", 950 is 95.0 and prints "95.0"
FloatStr(tenths) == NatStr(tenths \div 10) \o <<".">> \o <<Digit(tenths % 10)>>

----------------------------------------------------------------------------
(* Values exchanged with the three services *)

\* Exceptions a boto3 call can raise; the script catches ClientError alone.
Exceptions == {"ClientError", "EndpointConnectionError"}

\* except ClientError as e (lines 40, 63, 94)
CaughtAsClientError(e) == e = "ClientError"

Label(name, tenths) ==
    [keys |-> {"Name", "Confidence"}, Name |-> name, Confidence |-> tenths]

\* a label dict without its 'Name' entry
NamelessLabel(tenths) ==
    [keys |-> {"Confidence"}, Name |-> "", Confidence |-> tenths]

LabelLists ==
    { <<>>,
      <<Label("Cat", 982), Label("Animal", 950)>>,
      <<NamelessLabel(500)>> }

\* shapes of the response's ResponseMetadata entry: absent, complete, or
\* present without the HTTPHeaders date
MetaShapes == {"absent", "date", "nodate"}

DateHeader == "Fri, 30 Oct 2026 10:00:00 GMT"

Responses ==
    { [isNone |-> FALSE, Labels |-> ls, meta |-> m] :
        ls \in LabelLists, m \in MetaShapes }

None == [isNone |-> TRUE, Labels |-> <<>>, meta |-> "absent"]

\* what a boto3 call does: it returns (exc = "none") or raises exc
CallOutcomes == {"none"} \cup Exceptions

\* what detect_labels does: it returns resp or raises exc
DetectOutcomes ==
    { [exc |-> "none", resp |-> r] : r \in Responses }
    \cup { [exc |-> e, resp |-> None] : e \in Exceptions }

\* a DynamoDB attribute-value item as put_item receives it (lines 86-91)
Item(image_name, labels_confidences, timestamp, branch) ==
    [filename |-> image_name, Labels |-> labels_confidences,
     timestamp |-> timestamp, branch |-> branch]

NoItem == Item(<<>>, <<>>, "", <<>>)

\* one entry of the record of stage invocations
Call(op, file, key, item, n, exc, result) ==
    [op |-> op, image |-> file, Bucket |-> BUCKET, Key |-> key,
     Item |-> item, nlabels |-> n, exc |-> exc, result |-> result,
     sent |-> <<>>]

----------------------------------------------------------------------------
(* The stage functions *)

\* faulty variant of image_size_validator: a file of exactly the limit fails
image_size_validator_strict(size, max_size) == size < max_size

\* faulty variant of image_size_validator: the limit is off by one
image_size_validator_off_by_one(size, max_size) == size <= max_size + 1

\* image_size_validator, line 108
image_size_validator(size, max_size) == size <= max_size

\* faulty variant of UploadKey: the file name is left out of the key
UploadKeyDropsName(image_path) == PREFIX

\* Key argument of s3_client.upload_file, line 37
UploadKey(image_path) == PREFIX \o Basename(image_path)

\* S3Object Name of the detect_labels request, line 58
AnalyzeKey(image_name) == PREFIX \o image_name

\* try/except of upload_image_to_s3 (lines 33-42) and of
\* store_results_in_dynamodb (lines 78-96): True, False, or the exception
\* leaves the function
BoolResult(exc) ==
    IF exc = "none" THEN "True"
    ELSE IF CaughtAsClientError(exc) THEN "False"
    ELSE "raise"

\* try/except of analyze_image_using_rekognition, lines 53-65
AnalyzeResult(o) ==
    IF o.exc = "none" THEN [kind |-> "return", labels |-> o.resp.Labels, response |-> o.resp]
    ELSE IF CaughtAsClientError(o.exc) THEN [kind |-> "return", labels |-> <<>>, response |-> None]
    ELSE [kind |-> "raise", labels |-> <<>>, response |-> None]

\* faulty variant of UploadFailed: the result of the upload is ignored
UploadFailedIgnored(r) == FALSE

\* if not upload_image_to_s3(image_path), line 125
UploadFailed(r) == r = "False"

\* if store_results_in_dynamodb(...), line 148
StoreSucceeded(r) == r = "True"

\* faulty variant of AnalysisFailed: only an absent response is a failure
AnalysisFailedNoneOnly(ls, resp) == resp.isNone

\* not labels or response is None, line 131
AnalysisFailed(ls, resp) == ls = <<>> \/ resp.isNone

\* the list comprehension of lines 79-82 raises KeyError on a label that
\* lacks 'Name' or 'Confidence'
LabelsWellFormed(ls) ==
    \A k \in 1..Len(ls) : {"Name", "Confidence"} \subseteq ls[k].keys

\* labels_confidences, lines 79-82
LabelsConfidences(ls) ==
    [k \in 1..Len(ls) |-> [Name |-> ls[k].Name, Confidence |-> FloatStr(ls[k].Confidence)]]

\* faulty variant of PutItem: the earlier item of the key is kept beside
\* the new one
PutItemKeepsEarlier(t, item) == t \cup {item}

\* put_item on a table whose primary key is filename: the item replaces
\* the item of the same key
PutItem(t, item) == { it \in t : it.filename # item.filename } \cup {item}

\* the tables dynamodb_client.put_item(Item = item) can leave (lines 84-96):
\* a call that returned has written the item; of a call that raised exc the
\* script knows only the exception, the request may or may not have been
\* applied by the service
TablesAfterPut(t, item, exc) ==
    IF exc = "none" THEN {PutItem(t, item)} ELSE {t, PutItem(t, item)}

\* upload_file: the object replaces the object of the same bucket and key
PutObject(objs, key, body) ==
    { o \in objs : ~(o.Bucket = BUCKET /\ o.Key = key) }
    \cup { [Bucket |-> BUCKET, Key |-> key, Body |-> body] }

\* line 145: the date header when the response has ResponseMetadata,
\* "Unknown" when it has not; KeyError when the entry lacks the header
TimestampRaises(resp) == resp.meta = "nodate"

Timestamp(resp) == IF resp.meta = "absent" THEN "Unknown" ELSE DateHeader

----------------------------------------------------------------------------
(* The inputs of a run *)

A_JPG == <<"a",".","j","p","g">>

B_PNG == <<"b",".","p","n","g">>

C_TXT == <<"c",".","t","x","t">>

D_JPEG == <<"d",".","j","p","e","g">>

E_UPPER == <<"e",".","J","P","G">>

FileNames == {A_JPG, B_PNG, C_TXT, D_JPEG, E_UPPER}

\* byte sizes a listed file can have: 4 MB, the limit (5 MB), one byte
\* more, 6 MB; the size of a file that is no image is never read
SizesOf(name) ==
    CASE name = A_JPG -> {4194304, 5242881}
      [] name = B_PNG -> {6291456, 5242880}
      [] name = D_JPEG -> {4194304}
      [] OTHER -> {1024}

\* os.listdir yields every entry of the folder once, in any order
Listings ==
    UNION { { l \in [1..n -> FileNames] : \A a, b \in 1..n : a # b => l[a] # l[b] }
            : n \in 0..MaxFiles }

Range(f) == { f[x] : x \in DOMAIN f }

REF_FEATURE == <<"r","e","f","s","/","h","e","a","d","s","/","f","e","a","t","/","x">>

\* GITHUB_REF of the environment: unset, or a ref
Refs == { [set |-> FALSE, val |-> <<>>],
          [set |-> TRUE, val |-> REF_FEATURE] }

\* an item an earlier run of the script left for a.jpg
EarlierItem ==
    Item(A_JPG, LabelsConfidences(<<Label("Dog", 777)>>), "Unknown", BranchOf([set |-> FALSE, val |-> <<>>]))

Tables0 == { {}, {EarlierItem} }

----------------------------------------------------------------------------
(* The run *)

Init ==
    /\ GITHUB_REF \in Refs
    /\ BRANCH = BranchOf(GITHUB_REF)
    /\ listing \in Listings
    /\ fsize \in { f \in [Range(listing) -> UNION { SizesOf(n) : n \in FileNames }] :
                      \A n \in Range(listing) : f[n] \in SizesOf(n) }
    /\ i = 1
    /\ pc = "loop"
    /\ labels = <<>>
    /\ response = None
    /\ s3 = {}
    /\ table0 \in Tables0
    /\ table = table0
    /\ calls = <<>>
    /\ status = [f \in Range(listing) |-> "DISCOVERED"]

\* faulty variant of image: the listing is walked from its end
imageFromEnd == listing[Len(listing) + 1 - i]

\* the loop variable of line 113
image == listing[i]

\* image_path, line 115
image_path == PathJoin(IMAGES_FOLDER, image)

\* faulty variant of NextImage: a failed store is tried again
NextImageRetriesStore(st) ==
    IF st = "FAILED_STORE"
    THEN /\ pc' = "store"
         /\ UNCHANGED <<i, status, labels, response>>
    ELSE /\ status' = [status EXCEPT ![listing[i]] = st]
         /\ i' = i + 1
         /\ pc' = "loop"
         /\ labels' = <<>>
         /\ response' = None

\* continue / end of the loop body: the for loop takes the next entry
NextImage(st) ==
    /\ status' = [status EXCEPT ![image] = st]
    /\ i' = i + 1
    /\ pc' = "loop"
    /\ labels' = <<>>
    /\ response' = None

\* an exception nobody catches ends the script with a traceback
Abort ==
    /\ pc' = "crashed"
    /\ UNCHANGED <<i, status, labels, response>>

\* lines 113-114 and 152-153: take the next entry and test its extension
Filter ==
    /\ pc = "loop"
    /\ i <= Len(listing)
    /\ IF EndsWithAny(image, IMAGE_EXTENSIONS)
       THEN /\ pc' = "validate"
            /\ UNCHANGED <<i, status, labels, response>>
       ELSE NextImage("SKIPPED_TYPE")
    /\ UNCHANGED <<GITHUB_REF, BRANCH, listing, fsize, s3, table, table0, calls>>

\* lines 115-120
Validate ==
    /\ pc = "validate"
    /\ LET ok == image_size_validator(fsize[image], MAX_SIZE)
       IN  /\ calls' = Append(calls, Call("validate", image, <<>>, NoItem, 0, "none",
                                          IF ok THEN "True" ELSE "False"))
           /\ IF ok
              THEN /\ pc' = "upload"
                   /\ status' = [status EXCEPT ![image] = "VALIDATED"]
                   /\ UNCHANGED <<i, labels, response>>
              ELSE NextImage("SKIPPED_SIZE")
    /\ UNCHANGED <<GITHUB_REF, BRANCH, listing, fsize, s3, table, table0>>

\* lines 122-127, with upload_image_to_s3 (lines 33-42)
Upload ==
    /\ pc = "upload"
    /\ \E exc \in CallOutcomes :
         LET r == BoolResult(exc)
             key == UploadKey(image_path)
         IN  /\ calls' = Append(calls, Call("upload", image, key, NoItem, 0, exc, r))
             /\ s3' = IF exc = "none" THEN PutObject(s3, key, image_path) ELSE s3
             /\ IF r = "raise" THEN Abort
                ELSE IF UploadFailed(r) THEN NextImage("FAILED_UPLOAD")
                ELSE /\ pc' = "analyze"
                     /\ status' = [status EXCEPT ![image] = "UPLOADED"]
                     /\ UNCHANGED <<i, labels, response>>
    /\ UNCHANGED <<GITHUB_REF, BRANCH, listing, fsize, table, table0>>

\* lines 129-133, with analyze_image_using_rekognition (lines 53-65), for
\* the outcomes detect_labels can have; the record keeps the label list the
\* service sent
AnalyzeWith(outcomes) ==
    /\ pc = "analyze"
    /\ \E o \in outcomes :
         LET r == AnalyzeResult(o)
             key == AnalyzeKey(Basename(image))
         IN  /\ calls' = Append(calls,
                    [Call("analyze", image, key, NoItem, Len(r.labels), o.exc,
                          IF r.kind = "raise" THEN "raise"
                          ELSE IF r.response.isNone THEN "None" ELSE "response")
                     EXCEPT !.sent = o.resp.Labels])
             /\ IF r.kind = "raise" THEN Abort
                ELSE IF AnalysisFailed(r.labels, r.response)
                THEN NextImage("FAILED_ANALYSIS")
                ELSE /\ pc' = "store"
                     /\ labels' = r.labels
                     /\ response' = r.response
                     /\ status' = [status EXCEPT ![image] = "ANALYZED"]
                     /\ UNCHANGED i
    /\ UNCHANGED <<GITHUB_REF, BRANCH, listing, fsize, s3, table, table0>>

Analyze == AnalyzeWith(DetectOutcomes)

\* lines 135-151, with store_results_in_dynamodb (lines 78-96)
Store ==
    /\ pc = "store"
    /\ IF TimestampRaises(response)
       THEN /\ Abort
            /\ UNCHANGED <<calls, table>>
       ELSE IF ~LabelsWellFormed(labels)
       THEN /\ calls' = Append(calls, Call("store", image, <<>>, NoItem, Len(labels), "KeyError", "raise"))
            /\ Abort
            /\ UNCHANGED table
       ELSE \E exc \in CallOutcomes :
              LET r == BoolResult(exc)
                  item == Item(Basename(image), LabelsConfidences(labels),
                               Timestamp(response), BRANCH)
              IN  /\ calls' = Append(calls, Call("store", image, <<>>, item, Len(labels), exc, r))
                  /\ table' \in TablesAfterPut(table, item, exc)
                  /\ IF r = "raise" THEN Abort
                     ELSE IF StoreSucceeded(r) THEN NextImage("STORED")
                     ELSE NextImage("FAILED_STORE")
    /\ UNCHANGED <<GITHUB_REF, BRANCH, listing, fsize, s3, table0>>

\* the for loop is exhausted: the script ends
Finish ==
    /\ pc = "loop"
    /\ i > Len(listing)
    /\ pc' = "done"
    /\ UNCHANGED <<GITHUB_REF, BRANCH, listing, fsize, i, labels, response,
                   s3, table, table0, calls, status>>

Next == Filter \/ Validate \/ Upload \/ Analyze \/ Store \/ Finish

Spec == Init /\ [][Next]_vars

----------------------------------------------------------------------------
(* The run over one image, with a wider choice of label lists *)

MaxLabels == 2

LabelNames == {"Cat", "Animal"}

\* confidences 0.0, 0.5, 9.0, 95.0, 98.2 and 100.0
Confidences == {0, 5, 90, 950, 982, 1000}

WideLabelLists ==
    UNION { [1..n -> { Label(nm, c) : nm \in LabelNames, c \in Confidences }]
            : n \in 0..MaxLabels }

WideOutcomes ==
    { [exc |-> "none", resp |-> [isNone |-> FALSE, Labels |-> ls, meta |-> "date"]] :
        ls \in WideLabelLists }

InitLabels ==
    /\ GITHUB_REF = [set |-> FALSE, val |-> <<>>]
    /\ BRANCH = BranchOf(GITHUB_REF)
    /\ listing = <<A_JPG>>
    /\ fsize = [f \in {A_JPG} |-> 4194304]
    /\ i = 1
    /\ pc = "loop"
    /\ labels = <<>>
    /\ response = None
    /\ s3 = {}
    /\ table0 \in Tables0
    /\ table = table0
    /\ calls = <<>>
    /\ status = [f \in {A_JPG} |-> "DISCOVERED"]

AnalyzeWide == AnalyzeWith(WideOutcomes)

NextLabels == Filter \/ Validate \/ Upload \/ AnalyzeWide \/ Store \/ Finish

SpecLabels == InitLabels /\ [][NextLabels]_vars

----------------------------------------------------------------------------
(* The run over two images, with a wider choice of file sizes *)

\* byte sizes from an empty file to 10 MB, with both neighbours of the limit
SizeSamples ==
    {0, 1, 4194304, 5242879, 5242880, 5242881, 6291456, 10485760}

InitSizes ==
    /\ GITHUB_REF = [set |-> FALSE, val |-> <<>>]
    /\ BRANCH = BranchOf(GITHUB_REF)
    /\ listing = <<A_JPG, B_PNG>>
    /\ fsize \in [{A_JPG, B_PNG} -> SizeSamples]
    /\ i = 1
    /\ pc = "loop"
    /\ labels = <<>>
    /\ response = None
    /\ s3 = {}
    /\ table0 = {}
    /\ table = table0
    /\ calls = <<>>
    /\ status = [f \in {A_JPG, B_PNG} |-> "DISCOVERED"]

SpecSizes == InitSizes /\ [][Next]_vars

----------------------------------------------------------------------------
(* Vocabulary of the properties *)

Stages == {"upload", "analyze", "store"}

TerminalStates ==
    {"SKIPPED_TYPE", "SKIPPED_SIZE", "FAILED_UPLOAD", "FAILED_ANALYSIS",
     "FAILED_STORE", "STORED"}

Positions == 1..Len(listing)

\* the entries of calls that are invocations of op for file f
CallsOf(op, f) == { k \in 1..Len(calls) : calls[k].op = op /\ calls[k].image = f }

Invoked(op, f) == CallsOf(op, f) # {}

\* the loop has left the file at position k behind and gone on
MovedPast(k) == i > k

\* s ends with suf, character by character
HasSuffix(s, suf) ==
    /\ Len(s) >= Len(suf)
    /\ \A j \in 1..Len(suf) : s[Len(s) - Len(suf) + j] = suf[j]

IsImageName(s) ==
    \/ HasSuffix(s, <<".","j","p","g">>)
    \/ HasSuffix(s, <<".","j","p","e","g">>)
    \/ HasSuffix(s, <<".","p","n","g">>)

\* the item the table holds for file f, as a set (empty when there is none)
ItemsOf(t, f) == { it \in t : it.filename = f }

----------------------------------------------------------------------------
(* C1. Failure isolation: whatever happens to a file at any stage, the      *)
(* batch is not aborted and the files discovered after it are still taken  *)
(* through the pipeline.  Stated as: the script never stops while a file   *)
(* listed after the current one is still waiting.                          *)
C1_FailureIsolation ==
    \A k \in Positions : k > i => pc # "crashed"

(* C2. A file whose size exceeds the maximum never has upload, analysis or *)
(* store invoked for it, and once validated it is skipped and the loop     *)
(* goes on to the next file.                                               *)
C2_OversizeSkipped ==
    \A k \in Positions :
        LET f == listing[k] IN
        fsize[f] > 5242880 =>
            /\ \A op \in Stages : ~Invoked(op, f)
            /\ \A o \in s3 : o.Key # PREFIX \o f
            /\ Invoked("validate", f) =>
                   /\ status[f] = "SKIPPED_SIZE"
                   /\ MovedPast(k)

\* an oversize file was skipped and a file listed after it was uploaded
C2_Witness ==
    \E k, m \in Positions :
        /\ k < m
        /\ fsize[listing[k]] = 5242881
        /\ status[listing[k]] = "SKIPPED_SIZE"
        /\ Invoked("upload", listing[m])

(* C3. A file whose upload returned failure never has analysis or store    *)
(* invoked for it.                                                         *)
C3_NoAnalysisAfterFailedUpload ==
    \A k \in 1..Len(calls) :
        (calls[k].op = "upload" /\ calls[k].result = "False") =>
            /\ ~Invoked("analyze", calls[k].image)
            /\ ~Invoked("store", calls[k].image)
            /\ ItemsOf(table, calls[k].image) = ItemsOf(table0, calls[k].image)

\* an upload returned False and the run went on to analyse a later file
C3_Witness ==
    \E k, m \in 1..Len(calls) :
        /\ k < m
        /\ calls[k].op = "upload" /\ calls[k].result = "False"
        /\ calls[m].op = "analyze"

(* C4. An uploaded file whose analysis returned an empty label list or an  *)
(* absent response (the outcome of any error of the analysis service too,  *)
(* whether detect_labels raised a client error or another transport error) *)
(* never has store invoked, the table keeps what it held for that file,    *)
(* the file is left as failed and the loop goes on to the next file.       *)
C4_NoStoreAfterFailedAnalysis ==
    \A k \in 1..Len(calls) :
        LET c == calls[k] IN
        (c.op = "analyze" /\ (c.nlabels = 0 \/ c.result = "None" \/ c.exc \in Exceptions)) =>
            /\ ~Invoked("store", c.image)
            /\ ItemsOf(table, c.image) = ItemsOf(table0, c.image)
            /\ status[c.image] = "FAILED_ANALYSIS"
            /\ \A p \in Positions : listing[p] = c.image =>
                   MovedPast(p)

(* C5. A discovered file enters validation if and only if its name ends,   *)
(* case-sensitively, with .jpg, .jpeg or .png; for every other file no     *)
(* stage at all is invoked.                                                *)
C5_ExtensionFilter ==
    \A k \in Positions :
        LET f == listing[k]
            isImage == IsImageName(f)
        IN
        /\ (MovedPast(k) \/ (k = i /\ pc \in {"upload", "analyze", "store", "crashed"}))
               => (Invoked("validate", f) <=> isImage)
        /\ ~isImage =>
               /\ \A c \in 1..Len(calls) : calls[c].image # f
               /\ status[f] \in {"DISCOVERED", "SKIPPED_TYPE"}
        /\ (k = i /\ pc = "validate") => isImage

\* a .JPG file and a .txt file were skipped and a .jpeg file was validated
C5_Witness ==
    /\ \E k \in Positions : listing[k] = E_UPPER /\ status[E_UPPER] = "SKIPPED_TYPE"
    /\ \E k \in Positions : listing[k] = C_TXT /\ status[C_TXT] = "SKIPPED_TYPE"
    /\ \E k \in Positions : listing[k] = D_JPEG /\ Invoked("validate", D_JPEG)

(* C6. No stage is retried: within a run upload, analysis and store are    *)
(* each invoked at most once per discovered file, and a store that failed  *)
(* (it returned False, or its put_item or its label comprehension raised)  *)
(* is not called again: the file is left as failed and the loop goes on.   *)
C6_NoRetry ==
    /\ \A k \in 1..Len(calls) : \A m \in (k + 1)..Len(calls) :
           calls[k].op = calls[m].op => calls[k].image # calls[m].image
    /\ \A k \in 1..Len(calls) :
           (calls[k].op = "store" /\ calls[k].result \in {"False", "raise"}) =>
               /\ status[calls[k].image] = "FAILED_STORE"
               /\ \A p \in Positions : listing[p] = calls[k].image => MovedPast(p)

(* C7. Every fallible stage collapses its outcome to a signal: on any      *)
(* error of the external call upload and store return False and analysis   *)
(* returns no labels and no response, and no error raised inside a stage   *)
(* or inside the loop body ends the batch.                                 *)
C7_ErrorsCollapse ==
    /\ \A k \in 1..Len(calls) :
           calls[k].exc # "none" => calls[k].result \in {"False", "None"}
    /\ pc # "crashed"

(* C8. From an empty table, when every upload, analysis (with at least one *)
(* label) and store of the run succeeded, the table after the run holds    *)
(* exactly one item per discovered file with an image extension and a size *)
(* within the limit, keyed by the file name, and nothing else.             *)
AllSucceeded ==
    \A k \in 1..Len(calls) :
        /\ calls[k].exc = "none"
        /\ calls[k].op = "analyze" => calls[k].nlabels >= 1

AcceptedFiles ==
    { f \in Range(listing) : IsImageName(f) /\ fsize[f] <= 5242880 }

C8_TableAfterRun ==
    (pc = "done" /\ table0 = {} /\ AllSucceeded) =>
        /\ { it.filename : it \in table } = AcceptedFiles
        /\ Cardinality(table) = Cardinality(AcceptedFiles)

\* the run over a.jpg (4 MB), b.png (6 MB) and c.txt ended with one item,
\* keyed a.jpg
C8_Witness ==
    /\ pc = "done" /\ table0 = {} /\ AllSucceeded
    /\ Range(listing) = {A_JPG, B_PNG, C_TXT}
    /\ fsize[A_JPG] = 4194304 /\ fsize[B_PNG] = 6291456
    /\ Cardinality(table) = 1
    /\ \A it \in table : it.filename = A_JPG

(* C9. The object key of a file is the fixed prefix rekognition-input/     *)
(* followed by the file's base name, whatever its local path, and the      *)
(* analysis request names the bucket and key its upload wrote.             *)
C9_ObjectKey ==
    \A k \in 1..Len(calls) :
        LET c == calls[k]
            expected == <<"r","e","k","o","g","n","i","t","i","o","n","-",
                          "i","n","p","u","t","/">> \o c.image
        IN  /\ c.op = "upload" =>
                /\ c.Key = expected
                /\ c.result = "True" =>
                       \E o \in s3 : o.Bucket = c.Bucket /\ o.Key = expected
            /\ c.op = "analyze" =>
                /\ c.Key = expected
                /\ \E u \in 1..(k - 1) :
                       /\ calls[u].op = "upload" /\ calls[u].image = c.image
                       /\ calls[u].result = "True"
                       /\ calls[u].Bucket = c.Bucket /\ calls[u].Key = c.Key

\* d.jpeg, found as images/d.jpeg, was uploaded and then analysed
C9_Witness ==
    \E k \in 1..Len(calls) :
        /\ calls[k].op = "analyze" /\ calls[k].image = D_JPEG
        /\ \E o \in s3 : o.Body = IMAGES_FOLDER \o D_JPEG

(* C10. Every record written in a run carries the same branch: the last    *)
(* "/"-separated part of the ref of the environment, or "main" when the    *)
(* ref is unset.                                                           *)
ExpectedBranch ==
    IF ~GITHUB_REF.set THEN <<"m","a","i","n">>
    ELSE LET v == GITHUB_REF.val
         IN  CHOOSE e \in { SubSeq(v, j, Len(v)) : j \in 1..(Len(v) + 1) } :
                 /\ \A j \in 1..Len(e) : e[j] # "/"
                 /\ (Len(e) = Len(v) \/ v[Len(v) - Len(e)] = "/")

C10_BranchOfRecords ==
    /\ \A k \in 1..Len(calls) :
           (calls[k].op = "store" /\ calls[k].result # "raise") =>
               /\ calls[k].Item.branch = ExpectedBranch
               /\ calls[k].result = "True" =>
                      \E it \in table : /\ it.filename = calls[k].image
                                        /\ it.branch = ExpectedBranch
    /\ \A k, m \in 1..Len(calls) :
           (calls[k].op = "store" /\ calls[m].op = "store"
            /\ calls[k].result = "True" /\ calls[m].result = "True") =>
               calls[k].Item.branch = calls[m].Item.branch

\* two records were written in a run started on refs/heads/feat/x
C10_Witness ==
    /\ GITHUB_REF.set
    /\ \E k, m \in 1..Len(calls) :
           /\ k < m
           /\ calls[k].op = "store" /\ calls[k].result = "True"
           /\ calls[m].op = "store" /\ calls[m].result = "True"
           /\ calls[m].Item.branch = <<"x">>

(* C11. Round trip of labels: the Labels list of the persisted record has  *)
(* the length and the order of the label list the classification service   *)
(* sent, and every entry keeps its name and its exact confidence, written  *)
(* as a decimal string.                                                    *)
IsDigit(c) == c \in {"0", "1", "2", "3", "4", "5", "6", "7", "8", "9"}

DigitValue(c) == CHOOSE d \in 0..9 : Digit(d) = c

RECURSIVE DigitsValue(_)
DigitsValue(ds) ==
    IF ds = <<>> THEN 0
    ELSE 10 * DigitsValue(SubSeq(ds, 1, Len(ds) - 1)) + DigitValue(ds[Len(ds)])

\* digits, one point, digits
IsDecimalString(str) ==
    /\ Cardinality({ k \in 1..Len(str) : str[k] = "." }) = 1
    /\ \A k \in 1..Len(str) : str[k] = "." \/ IsDigit(str[k])
    /\ str[1] # "." /\ str[Len(str)] # "."

\* the number a decimal string with one fractional digit denotes, in tenths
DecimalTenths(str) ==
    LET dot == CHOOSE k \in 1..Len(str) : str[k] = "."
    IN  10 * DigitsValue(SubSeq(str, 1, dot - 1))
          + DigitsValue(SubSeq(str, dot + 1, Len(str)))

C11_LabelsRoundTrip ==
    \A k \in 1..Len(calls) :
        (calls[k].op = "store" /\ calls[k].result # "raise") =>
            \E a \in 1..(k - 1) :
                /\ calls[a].op = "analyze" /\ calls[a].image = calls[k].image
                /\ LET sent == calls[a].sent
                       kept == calls[k].Item.Labels
                   IN  /\ Len(kept) = Len(sent)
                       /\ \A n \in 1..Len(sent) :
                              /\ kept[n].Name = sent[n].Name
                              /\ IsDecimalString(kept[n].Confidence)
                              /\ Len(kept[n].Confidence) = Len(NatStr(sent[n].Confidence \div 10)) + 2
                              /\ DecimalTenths(kept[n].Confidence) = sent[n].Confidence
                       /\ calls[k].result = "True" =>
                              \E it \in table : it.filename = calls[k].image /\ it.Labels = kept

\* the record of [("Cat", 98.2), ("Animal", 95.0)] was written with the
\* confidences "98.2" and "95.0", in that order
C11_Witness ==
    \E it \in table :
        /\ it \notin table0
        /\ it.Labels = << [Name |-> "Cat", Confidence |-> <<"9","8",".","2">>],
                          [Name |-> "Animal", Confidence |-> <<"9","5",".","0">>] >>

(* C12. Last write wins: the table never holds two items of one filename,  *)
(* and a successful store for a filename that already has an item replaces *)
(* that item entirely: labels, timestamp and branch are those of the       *)
(* latest write, nothing of the earlier item is kept.                      *)
C12_LastWriteWins ==
    /\ \A a, b \in table : a.filename = b.filename => a = b
    /\ \A k \in 1..Len(calls) :
           (calls[k].op = "store" /\ calls[k].result = "True"
            /\ \A m \in (k + 1)..Len(calls) :
                   ~(calls[m].op = "store" /\ calls[m].image = calls[k].image
                     /\ calls[m].result = "True")) =>
               ItemsOf(table, calls[k].image) = {calls[k].Item}

\* the run found an item for a.jpg and wrote a.jpg again: the table holds
\* one item for a.jpg, whose labels, timestamp and branch are all new
C12_Witness ==
    /\ EarlierItem \in table0
    /\ \E k \in 1..Len(calls) :
           /\ calls[k].op = "store" /\ calls[k].result = "True"
           /\ calls[k].image = A_JPG
    /\ \E it \in table :
           /\ it.filename = A_JPG
           /\ it.Labels # EarlierItem.Labels
           /\ it.timestamp # EarlierItem.timestamp
           /\ it.branch # EarlierItem.branch

(* C13. The size validator returns true if and only if the byte size of    *)
(* the file is at most 5,242,880: a file of exactly 5,242,880 bytes is     *)
(* valid, one of 5,242,881 bytes is not.                                   *)
C13_SizeValidator ==
    \A k \in 1..Len(calls) :
        calls[k].op = "validate" =>
            /\ calls[k].result \in {"True", "False"}
            /\ calls[k].result = "True" <=> fsize[calls[k].image] <= 5242880
            /\ fsize[calls[k].image] = 5242880 => calls[k].result = "True"
            /\ fsize[calls[k].image] = 5242881 => calls[k].result = "False"

\* a file of 5,242,880 bytes passed validation and one of 5,242,881 did not
C13_Witness ==
    \E k, m \in 1..Len(calls) :
        /\ calls[k].op = "validate" /\ fsize[calls[k].image] = 5242880
        /\ calls[k].result = "True"
        /\ calls[m].op = "validate" /\ fsize[calls[m].image] = 5242881
        /\ calls[m].result = "False"

(* C14. Stages run forward only within one file's iteration: upload is     *)
(* invoked only after the file passed the extension filter and the size    *)
(* validation, analysis only after the file's upload returned success, and *)
(* store only after the file's analysis returned a non-empty label list    *)
(* with a present response.                                                *)
C14_ForwardOnly ==
    \A k \in 1..Len(calls) :
        LET c == calls[k] IN
        /\ c.op = "upload" =>
               /\ IsImageName(c.image)
               /\ fsize[c.image] <= 5242880
               /\ \E v \in 1..(k - 1) :
                      /\ calls[v].op = "validate" /\ calls[v].image = c.image
                      /\ calls[v].result = "True"
        /\ c.op = "analyze" =>
               \E u \in 1..(k - 1) :
                   /\ calls[u].op = "upload" /\ calls[u].image = c.image
                   /\ calls[u].result = "True" /\ calls[u].exc = "none"
        /\ c.op = "store" =>
               \E a \in 1..(k - 1) :
                   /\ calls[a].op = "analyze" /\ calls[a].image = c.image
                   /\ calls[a].result = "response" /\ calls[a].exc = "none"
                   /\ calls[a].nlabels >= 1 /\ Len(calls[a].sent) >= 1

\* a file went through validate, upload, analyze and store, in that order
C14_Witness ==
    \E v, u, a, t \in 1..Len(calls) :
        /\ v < u /\ u < a /\ a < t
        /\ calls[v].op = "validate" /\ calls[u].op = "upload"
        /\ calls[a].op = "analyze" /\ calls[t].op = "store"
        /\ calls[v].image = calls[t].image /\ calls[u].image = calls[t].image
        /\ calls[a].image = calls[t].image

(* C15. Images are processed strictly one at a time in the order of the    *)
(* directory enumeration: every stage call for a file happens after the    *)
(* file listed before it reached its terminal state and before any stage   *)
(* call for the file listed after it.                                      *)
PositionOf(f) == CHOOSE p \in Positions : listing[p] = f

C15_OneAtATime ==
    /\ \A k \in 1..(Len(calls) - 1) :
           PositionOf(calls[k].image) <= PositionOf(calls[k + 1].image)
    /\ \A k \in 1..Len(calls) : PositionOf(calls[k].image) <= i
    /\ \A p \in Positions :
           /\ p < i => status[listing[p]] \in TerminalStates
           /\ p > i => status[listing[p]] = "DISCOVERED"
           /\ (p = i /\ pc = "loop") => status[listing[p]] = "DISCOVERED"

\* the first file was stored, the second is being analysed and the third
\* is still waiting
C15_Witness ==
    /\ Len(listing) = 3 /\ i = 2 /\ pc = "analyze"
    /\ status[listing[1]] = "STORED"
    /\ Invoked("upload", listing[2])
    /\ IsImageName(listing[3])

(* C16. Provided every external call comes back, every discovered file     *)
(* reaches exactly one of the terminal states SKIPPED_TYPE, SKIPPED_SIZE,  *)
(* FAILED_UPLOAD, FAILED_ANALYSIS, FAILED_STORE or STORED, and the run     *)
(* ends after the last discovered file reached its terminal state.         *)
(* Stated on the states where the script has no step left, for the runs   *)
(* in which no external call raised at all.                                *)
C16_EveryFileTerminates ==
    (/\ ~ENABLED Next
     /\ \A k \in 1..Len(calls) : calls[k].exc \notin Exceptions) =>
        /\ pc = "done"
        /\ \A f \in Range(listing) : status[f] \in TerminalStates

(* C17. Processing a file that ends in a state other than STORED leaves    *)
(* the table unchanged: the item an earlier run left for that filename     *)
(* stays exactly as it was, and no item of another filename is touched.    *)
C17_NonStoredLeavesTable ==
    /\ \A f \in Range(listing) :
           (\/ status[f] \in TerminalStates \ {"STORED"}
            \/ \E k \in 1..Len(calls) :
                   /\ calls[k].image = f
                   /\ \/ calls[k].op = "validate" /\ calls[k].result = "False"
                      \/ calls[k].op = "upload" /\ calls[k].result = "False"
                      \/ calls[k].op = "analyze" /\ calls[k].result = "None"
                      \/ calls[k].op = "analyze" /\ calls[k].nlabels = 0
                      \/ calls[k].op = "store" /\ calls[k].result = "False")
               => ItemsOf(table, f) = ItemsOf(table0, f)
    /\ \A it \in table :
           \/ it \in table0
           \/ \E k \in 1..Len(calls) :
                  /\ calls[k].op = "store" /\ calls[k].result = "True"
                  /\ calls[k].Item = it /\ status[calls[k].image] = "STORED"
    /\ \A it \in table0 :
           \/ it \in table
           \/ \E k \in 1..Len(calls) :
                  /\ calls[k].op = "store" /\ calls[k].result = "True"
                  /\ calls[k].image = it.filename

\* the k-th call is a store whose put_item was called (line 84)
PutAttempted(k) ==
    /\ calls[k].op = "store"
    /\ calls[k].exc \in CallOutcomes

(* C17, amended. A file that is skipped by type or by size, or whose        *)
(* upload or analysis failed, leaves the table unchanged: the item an       *)
(* earlier run left for its filename stays exactly as it was. A file whose  *)
(* store returned False leaves for its filename either the item the run     *)
(* found or the item of that store call. No item of a filename for which    *)
(* put_item was not called is touched.                                      *)
C17_OnlyPutItemTouchesTable ==
    /\ \A f \in Range(listing) :
           (\/ status[f] \in {"SKIPPED_TYPE", "SKIPPED_SIZE",
                              "FAILED_UPLOAD", "FAILED_ANALYSIS"}
            \/ \E k \in 1..Len(calls) :
                   /\ calls[k].image = f
                   /\ \/ calls[k].op = "validate" /\ calls[k].result = "False"
                      \/ calls[k].op = "upload" /\ calls[k].result = "False"
                      \/ calls[k].op = "analyze" /\ calls[k].result = "None"
                      \/ calls[k].op = "analyze" /\ calls[k].nlabels = 0)
               => ItemsOf(table, f) = ItemsOf(table0, f)
    /\ \A k \in 1..Len(calls) :
           (calls[k].op = "store" /\ calls[k].result = "False") =>
               \/ ItemsOf(table, calls[k].image) = ItemsOf(table0, calls[k].image)
               \/ ItemsOf(table, calls[k].image) = {calls[k].Item}
    /\ \A it \in table :
           \/ it \in table0
           \/ \E k \in 1..Len(calls) : PutAttempted(k) /\ calls[k].Item = it
    /\ \A it \in table0 :
           \/ it \in table
           \/ \E k \in 1..Len(calls) :
                  PutAttempted(k) /\ calls[k].Item.filename = it.filename

\* the analysis of a.jpg failed and the item an earlier run left for a.jpg
\* is still there; the store of a second file returned False and a third
\* file was stored
C17_Witness ==
    /\ EarlierItem \in table0 /\ EarlierItem \in table
    /\ \E p \in Positions : listing[p] = A_JPG /\ status[A_JPG] = "FAILED_ANALYSIS"
    /\ \E f \in Range(listing) : status[f] = "FAILED_STORE"
    /\ \E f \in Range(listing) : status[f] = "STORED"

(* C18. Whenever store is invoked the timestamp it receives is the date    *)
(* header of the analysis response, or the string "Unknown" when the       *)
(* response has no ResponseMetadata; store is never invoked without a      *)
(* timestamp string, and deriving the timestamp never stops the batch:     *)
(* the script stops only when a stage call raised.                         *)
C18_Timestamp ==
    /\ \A k \in 1..Len(calls) :
           (calls[k].op = "store" /\ calls[k].exc \in CallOutcomes) =>
               calls[k].Item.timestamp \in {DateHeader, "Unknown"}
    /\ pc = "crashed" =>
           /\ calls # <<>>
           /\ calls[Len(calls)].result = "raise"

(* C19. Within a run no two discovered files map to the same object key or *)
(* to the same filename key of the table: every key is written at most     *)
(* once per run, no image's object or record is overwritten by another     *)
(* image of the run.                                                       *)
C19_DistinctKeys ==
    /\ \A k \in 1..Len(calls) :
           calls[k].op = "upload" =>
               \A m \in (k + 1)..Len(calls) :
                   calls[m].op = "upload" => calls[k].Key # calls[m].Key
    /\ \A k \in 1..Len(calls) :
           (calls[k].op = "store" /\ calls[k].result # "raise") =>
               \A m \in (k + 1)..Len(calls) :
                   (calls[m].op = "store" /\ calls[m].result # "raise") =>
                       calls[k].Item.filename # calls[m].Item.filename
    /\ \A k \in 1..Len(calls) :
           (calls[k].op = "upload" /\ calls[k].result = "True") =>
               \E o \in s3 : /\ o.Key = calls[k].Key
                             /\ o.Body = IMAGES_FOLDER \o calls[k].image
    /\ Cardinality(s3) =
           Cardinality({ k \in 1..Len(calls) :
                           calls[k].op = "upload" /\ calls[k].result = "True" })

\* three images were uploaded and stored in one run: three objects, three
\* items
C19_Witness ==
    /\ pc = "done" /\ Len(listing) = 3
    /\ \A f \in Range(listing) : status[f] = "STORED"
    /\ Cardinality(s3) = 3
    /\ Cardinality({ it.filename : it \in table }) = 3

====
